---- MODULE Spec2Model ----
(***************************************************************************)
(* A model of the feature-engineering toolkit: the zip-code enrichment     *)
(* pipeline of src/src/geocode.py (lookup, municipal-area builder and the  *)
(* parallel driver, with the three append-only CSV files the workers       *)
(* share), the timestamp decomposition of src/timestamps.py, the           *)
(* generation lookup of src/src/demographics.py, the group-wise            *)
(* aggregations of src/aggregations.py and the ratio features of           *)
(* src/src/ratios.py.                                                      *)
(***************************************************************************)
EXTENDS Integers, Sequences, FiniteSets, TLC

\* Bounds of the model.
MaxRows == 3          \* rows of the table handed to the parallel driver
MaxCores == 2         \* n_cores
MaxZips == 2          \* zip records the service returns for one city/state
MaxSplitRows == 9     \* rows of a table split on its own
MaxSections == 6      \* sections of a table split on its own
MaxZipChars == 7      \* characters of a textual Zip cell
FirstDay == 10        \* first and last day of the timestamps (day 1 is
LastDay == 26         \*   2021-01-01)
MaxStamps == 2        \* rows of the timestamp column
FirstYear == 1880     \* first and last birth year
LastYear == 2035
MaxAggRows == 3       \* rows of an aggregated table
MaxAggKeys == 2       \* distinct values of the grouping column
MaxAggValue == 2      \* largest value of the grouped column
MaxFeatures == 3      \* columns of X
MaxRatioValue == 2    \* largest value of a cell of X

VARIABLES
    df,                       \* the driver's input table (a sequence of rows)
    n_cores,                  \* number of shards and of pool processes
    by_city_state,            \* lookup mode
    df_split,                 \* np.array_split(df, n_cores)
    driver,                   \* where parallel_construct_municipal_area stands
    pc,                       \* pc[w]: where worker w stands
    idx,                      \* idx[w]: position of worker w in its shard
    tell,                     \* tell[w]: f.tell() read by worker w's last open
    cur,                      \* cur[w]: simple_zipcodes held by worker w
    frame,                    \* frame[w]: df held by worker w before to_csv
    exc,                      \* exc[w]: exception that ended worker w's task
    calls,                    \* calls[w]: ids of the rows worker w built
    lookup_ret,               \* outcome of get_location_demographics_from_dict per row
    ret,                      \* outcome of construct_municipal_area per row
    value_errors,             \* lines of value_errors.csv
    unresolveable_addresses,  \* lines of unresolveable_addresses.csv
    enriched_addresses,       \* lines of enriched_addresses.csv
    zip_in,                   \* address['zip'] as the caller passed it
    zip_out,                  \* address['zip'] after normalization
    col,                      \* the timestamp column of process_timestamps
    features,                 \* the day-part and holiday flags per row
    birth_year,               \* argument of birth_generation
    generation,               \* its result
    agg_df,                   \* the table handed to make_*_aggregation
    agg_op,                   \* which of the three aggregations is called
    agg_out,                  \* the table it returns
    X,                        \* a row of the matrix handed to calc_create_ratios
    feature_names,            \* its column names
    ratio_df                  \* the table calc_create_ratios returns

geoVars == <<df, n_cores, by_city_state, df_split, driver, pc, idx, tell, cur,
             frame, exc, calls, lookup_ret, ret, value_errors,
             unresolveable_addresses, enriched_addresses>>

zipVars == <<zip_in, zip_out>>
timeVars == <<col, features>>
genVars == <<birth_year, generation>>

aggVars == <<agg_df, agg_op, agg_out>>
ratioVars == <<X, feature_names, ratio_df>>

leafVars == <<zipVars, timeVars, genVars, aggVars, ratioVars>>

vars == <<geoVars, zipVars, timeVars, genVars, aggVars, ratioVars>>

----------------------------------------------------------------------------
\* Python values of the pipeline.

NoneObj == [type |-> "NoneType", q |-> 0, j |-> 0]
NaN == [type |-> "NaN", q |-> 0, j |-> 0]
\* The j-th zip record the service holds for the query of row q.
SimpleZipcode(q, j) == [type |-> "SimpleZipcode", q |-> q, j |-> j]
PyList(s) == [type |-> "list", items |-> s]

\* A source row: its id stands for its cell values; fields says whether City
\* and State hold text; answer and n say what the lookup service does with it.
Row(i, k) == [id |-> i, fields |-> k.fields, answer |-> k.answer, n |-> k.n]
NaNRow == [id |-> 0, fields |-> "NaN", answer |-> "NaN", n |-> 0]

Kinds(mode) ==
    {[fields |-> "missing", answer |-> "records", n |-> 1],
     [fields |-> "text", answer |-> "ValueError", n |-> 0],
     [fields |-> "text", answer |-> "absent", n |-> 1]}
    \cup {[fields |-> "text", answer |-> "records", n |-> m] :
             m \in (IF mode THEN 0..MaxZips ELSE {1})}

Tables(mode) ==
    UNION {[1..k -> Kinds(mode)] : k \in 0..MaxRows}

metrics == <<"zipcode", "major_city", "lat", "lng", "timezone",
             "radius_in_miles", "population", "population_density",
             "housing_units", "occupied_housing_units", "median_home_value",
             "median_household_income">>

RowColumns == <<"City", "State", "Zip">>

Returned(v) == [exc |-> "none", value |-> v]
Raised(e) == [exc |-> e, value |-> NoneObj]
Pending == [exc |-> "pending", value |-> NoneObj]

\* pd.DataFrame(): no columns, no rows.
EmptyFrame == [type |-> "DataFrame", columns |-> <<>>, rows |-> <<>>]
DataFrame(cols, rows) == [type |-> "DataFrame", columns |-> cols, rows |-> rows]

----------------------------------------------------------------------------
\* np.array_split(ary, Nsections): the first Ntotal % Nsections sections hold
\* Ntotal \div Nsections + 1 items, the others Ntotal \div Nsections; the
\* sections are cut at the running sums of these sizes.

\* A split that hands every left-over item to the first section.
section_size_lumped(Ntotal, Nsections, i) ==
    IF i = 1 THEN (Ntotal \div Nsections) + (Ntotal % Nsections)
             ELSE Ntotal \div Nsections

section_size(Ntotal, Nsections, i) ==
    IF i <= Ntotal % Nsections THEN (Ntotal \div Nsections) + 1
                               ELSE Ntotal \div Nsections

RECURSIVE div_point(_, _, _)
div_point(Ntotal, Nsections, i) ==
    IF i = 0 THEN 0
    ELSE div_point(Ntotal, Nsections, i - 1) + section_size(Ntotal, Nsections, i)

array_split(ary, Nsections) ==
    [i \in 1..Nsections |->
        SubSeq(ary, div_point(Len(ary), Nsections, i - 1) + 1,
                    div_point(Len(ary), Nsections, i))]

----------------------------------------------------------------------------
\* The external lookup service, as the row's answer describes it.

\* engine.by_city_and_state / engine.by_zipcode
engine(row, mode) ==
    IF row.answer = "ValueError" THEN Raised("ValueError")
    ELSE IF mode
         THEN IF row.answer = "absent"
              THEN Returned(PyList(<<NoneObj>>))
              ELSE Returned(PyList([j \in 1..row.n |-> SimpleZipcode(row.id, j)]))
         ELSE IF row.answer = "absent"
              THEN Returned(NoneObj)
              ELSE Returned(SimpleZipcode(row.id, 1))

\* address['city'].title() ... : fails on a value that is not text.
normalize(row) ==
    IF row.fields = "text" THEN "none" ELSE "AttributeError"

----------------------------------------------------------------------------
\* construct_municipal_area, between the lookup and the file writes.

\* len(simple_zipcodes) == 0, asked of a list only (by_city_state and ...).
early_return(mode, value) ==
    mode /\ value.type = "list" /\ Len(value.items) = 0

\* The try block: reading zipcode.zipcode ... of every record raises
\* AttributeError on an object that has no such attributes.
build_metrics(mode, value) ==
    IF mode
    THEN IF \A i \in 1..Len(value.items) : value.items[i].type = "SimpleZipcode"
         THEN Returned(value.items)
         ELSE Raised("AttributeError")
    ELSE IF value.type = "SimpleZipcode"
         THEN Returned(<<value>>)
         ELSE Raised("AttributeError")

\* A broadcast that does not repeat the source row.
repeat_row_once(row, n) ==
    IF n = 0 THEN Raised("ValueError")
    ELSE Returned(<<row>>)

\* pd.concat([row] * n, ignore_index=True): raises ValueError on no objects.
repeat_row(row, n) ==
    IF n = 0 THEN Raised("ValueError")
    ELSE Returned([i \in 1..n |-> row])

\* pd.concat([df, normalized_row], axis=1): joined on the index, NaN where a
\* side has no row of that index.
concat_axis1(rows, normalized_row) ==
    LET n == IF Len(rows) >= Len(normalized_row) THEN Len(rows)
                                                  ELSE Len(normalized_row)
    IN DataFrame(metrics \o RowColumns,
                 [i \in 1..n |->
                    [metrics |-> IF i <= Len(rows) THEN rows[i] ELSE NaN,
                     row |-> IF i <= Len(normalized_row) THEN normalized_row[i]
                                                         ELSE NaNRow]])

\* fillna, astype, then the broadcast of the source row onto the df's rows.
join_row(rows, row) ==
    LET normalized_row == repeat_row(row, Len(rows))
    IN IF normalized_row.exc # "none" THEN Raised(normalized_row.exc)
       ELSE Returned(concat_axis1(rows, normalized_row.value))

----------------------------------------------------------------------------
\* Lines of the three CSV files.

Header == [line |-> "header", q |-> 0, j |-> 0]
Data(q, j) == [line |-> "data", q |-> q, j |-> j]

\* A log that takes the data row only together with the header.
value_errors_rows_on_empty(t, row) ==
    IF t = 0 THEN <<Header, Data(row.id, 0)>> ELSE <<>>

\* if f.tell()==0: writer.writerow(header); writer.writerow(data)
value_errors_rows(t, row) ==
    (IF t = 0 THEN <<Header>> ELSE <<>>) \o <<Data(row.id, 0)>>

unresolveable_rows(t, row) ==
    (IF t = 0 THEN <<Header>> ELSE <<>>) \o <<Data(row.id, 0)>>

\* df.to_csv(filename, mode='a', header=f.tell()==0)
to_csv(t, fr) ==
    (IF t = 0 THEN <<Header>> ELSE <<>>)
    \o [i \in 1..Len(fr.rows) |-> Data(fr.rows[i].row.id, fr.rows[i].metrics.j)]

----------------------------------------------------------------------------
\* The enrichment pipeline.

Workers == 1..n_cores
shard(w) == df_split[w]
\* An iteration that walks the shard from its last row to its first.
row_of_reversed(w) == shard(w)[Len(shard(w)) + 1 - idx[w]]

row_of(w) == shard(w)[idx[w]]

GeoInit ==
    /\ by_city_state \in BOOLEAN
    /\ n_cores \in 1..MaxCores
    /\ \E t \in Tables(by_city_state) :
          df = [i \in 1..Len(t) |-> Row(i, t[i])]
    /\ df_split = <<>>
    /\ driver = "called"
    /\ pc = [w \in 1..n_cores |-> "idle"]
    /\ idx = [w \in 1..n_cores |-> 1]
    /\ tell = [w \in 1..n_cores |-> 0]
    /\ cur = [w \in 1..n_cores |-> NoneObj]
    /\ frame = [w \in 1..n_cores |-> EmptyFrame]
    /\ exc = [w \in 1..n_cores |-> "none"]
    /\ calls = [w \in 1..n_cores |-> <<>>]
    /\ lookup_ret = [i \in 1..Len(df) |-> Pending]
    /\ ret = [i \in 1..Len(df) |-> Pending]
    /\ value_errors = <<>>
    /\ unresolveable_addresses = <<>>
    /\ enriched_addresses = <<>>

\* parallel_construct_municipal_area up to pool.starmap: the table is split
\* and every pool process gets one shard.
Starmap ==
    /\ driver = "called"
    /\ df_split' = array_split(df, n_cores)
    /\ pc' = [w \in Workers |-> "apply"]
    /\ driver' = "starmap"
    /\ UNCHANGED leafVars
    /\ UNCHANGED <<df, n_cores, by_city_state, idx, tell, cur, frame, exc, calls,
                   lookup_ret, ret, value_errors, unresolveable_addresses,
                   enriched_addresses>>

\* The row is done: df.apply moves to the next row of the shard.
NextRow(w) ==
    /\ idx' = [idx EXCEPT ![w] = @ + 1]
    /\ pc' = [pc EXCEPT ![w] = "apply"]
    /\ exc' = exc

\* An exception leaves construct_municipal_area, df.apply and the task.
Raise(w, e) ==
    /\ pc' = [pc EXCEPT ![w] = "raised"]
    /\ exc' = [exc EXCEPT ![w] = e]
    /\ idx' = idx

\* df.apply has no row left: _apply_construct_municipal_area returns.
ApplyReturn(w) ==
    /\ driver = "starmap"
    /\ pc[w] = "apply"
    /\ idx[w] > Len(shard(w))
    /\ pc' = [pc EXCEPT ![w] = "done"]
    /\ UNCHANGED leafVars
    /\ UNCHANGED <<df, n_cores, by_city_state, df_split, driver, idx, tell, cur,
                   frame, exc, calls, lookup_ret, ret, value_errors,
                   unresolveable_addresses, enriched_addresses>>

\* construct_municipal_area is called on the next row and calls
\* get_location_demographics_from_dict: normalization, then the lookup.
Lookup(w) ==
    /\ driver = "starmap"
    /\ pc[w] = "apply"
    /\ idx[w] <= Len(shard(w))
    /\ LET row == row_of(w)
           result == engine(row, by_city_state)
       IN /\ calls' = [calls EXCEPT ![w] = Append(@, row.id)]
          /\ IF normalize(row) # "none"
             THEN /\ lookup_ret' = [lookup_ret EXCEPT ![row.id] = Raised(normalize(row))]
                  /\ ret' = [ret EXCEPT ![row.id] = Raised(normalize(row))]
                  /\ Raise(w, normalize(row))
                  /\ cur' = cur
             ELSE IF result.exc = "ValueError"
             THEN /\ pc' = [pc EXCEPT ![w] = "ve_open"]
                  /\ UNCHANGED <<lookup_ret, ret, cur, idx, exc>>
             ELSE /\ lookup_ret' = [lookup_ret EXCEPT ![row.id] = result]
                  /\ cur' = [cur EXCEPT ![w] = result.value]
                  /\ pc' = [pc EXCEPT ![w] = "looked"]
                  /\ UNCHANGED <<ret, idx, exc>>
    /\ UNCHANGED leafVars
    /\ UNCHANGED <<df, n_cores, by_city_state, df_split, driver, tell, frame,
                   value_errors, unresolveable_addresses, enriched_addresses>>

\* except ValueError: open(value_errors.csv, 'a') and f.tell().
ValueErrorsOpen(w) ==
    /\ pc[w] = "ve_open"
    /\ tell' = [tell EXCEPT ![w] = Len(value_errors)]
    /\ pc' = [pc EXCEPT ![w] = "ve_write"]
    /\ UNCHANGED leafVars
    /\ UNCHANGED <<df, n_cores, by_city_state, df_split, driver, idx, cur, frame,
                   exc, calls, lookup_ret, ret, value_errors,
                   unresolveable_addresses, enriched_addresses>>

\* The header (on tell 0) and the data row reach the file; return [].
ValueErrorsWrite(w) ==
    /\ pc[w] = "ve_write"
    /\ value_errors' = value_errors \o value_errors_rows(tell[w], row_of(w))
    /\ lookup_ret' = [lookup_ret EXCEPT ![row_of(w).id] = Returned(PyList(<<>>))]
    /\ cur' = [cur EXCEPT ![w] = PyList(<<>>)]
    /\ pc' = [pc EXCEPT ![w] = "looked"]
    /\ UNCHANGED leafVars
    /\ UNCHANGED <<df, n_cores, by_city_state, df_split, driver, idx, tell, frame,
                   exc, calls, ret, unresolveable_addresses, enriched_addresses>>

\* construct_municipal_area after the lookup: the early return, the mapping
\* of the records' attributes, the broadcast of the source row.
Build(w) ==
    /\ pc[w] = "looked"
    /\ LET row == row_of(w)
           m == build_metrics(by_city_state, cur[w])
           joined == join_row(m.value, row)
       IN IF early_return(by_city_state, cur[w])
          THEN /\ ret' = [ret EXCEPT ![row.id] = Returned(EmptyFrame)]
               /\ NextRow(w)
               /\ frame' = frame
          ELSE IF m.exc = "AttributeError"
          THEN /\ pc' = [pc EXCEPT ![w] = "ur_open"]
               /\ UNCHANGED <<ret, idx, exc, frame>>
          ELSE IF joined.exc # "none"
          THEN /\ ret' = [ret EXCEPT ![row.id] = Raised(joined.exc)]
               /\ Raise(w, joined.exc)
               /\ frame' = frame
          ELSE /\ frame' = [frame EXCEPT ![w] = joined.value]
               /\ pc' = [pc EXCEPT ![w] = "en_open"]
               /\ UNCHANGED <<ret, idx, exc>>
    /\ UNCHANGED leafVars
    /\ UNCHANGED <<df, n_cores, by_city_state, df_split, driver, tell, cur, calls,
                   lookup_ret, value_errors, unresolveable_addresses,
                   enriched_addresses>>

\* except AttributeError: open(unresolveable_addresses.csv, 'a') and f.tell().
UnresolveableOpen(w) ==
    /\ pc[w] = "ur_open"
    /\ tell' = [tell EXCEPT ![w] = Len(unresolveable_addresses)]
    /\ pc' = [pc EXCEPT ![w] = "ur_write"]
    /\ UNCHANGED leafVars
    /\ UNCHANGED <<df, n_cores, by_city_state, df_split, driver, idx, cur, frame,
                   exc, calls, lookup_ret, ret, value_errors,
                   unresolveable_addresses, enriched_addresses>>

\* The row reaches the file; df = pd.DataFrame(columns=metrics), and the
\* function goes on to the broadcast of the source row onto that blank df.
UnresolveableWrite(w) ==
    /\ pc[w] = "ur_write"
    /\ unresolveable_addresses' =
          unresolveable_addresses \o unresolveable_rows(tell[w], row_of(w))
    /\ LET row == row_of(w)
           joined == join_row(<<>>, row)
       IN IF joined.exc # "none"
          THEN /\ ret' = [ret EXCEPT ![row.id] = Raised(joined.exc)]
               /\ Raise(w, joined.exc)
               /\ frame' = frame
          ELSE /\ frame' = [frame EXCEPT ![w] = joined.value]
               /\ pc' = [pc EXCEPT ![w] = "en_open"]
               /\ UNCHANGED <<ret, idx, exc>>
    /\ UNCHANGED leafVars
    /\ UNCHANGED <<df, n_cores, by_city_state, df_split, driver, tell, cur, calls,
                   lookup_ret, value_errors, enriched_addresses>>

\* open(enriched_addresses.csv, 'a') and f.tell().
EnrichedOpen(w) ==
    /\ pc[w] = "en_open"
    /\ tell' = [tell EXCEPT ![w] = Len(enriched_addresses)]
    /\ pc' = [pc EXCEPT ![w] = "en_write"]
    /\ UNCHANGED leafVars
    /\ UNCHANGED <<df, n_cores, by_city_state, df_split, driver, idx, cur, frame,
                   exc, calls, lookup_ret, ret, value_errors,
                   unresolveable_addresses, enriched_addresses>>

\* df.to_csv appends the header (on tell 0) and the rows; return df.
EnrichedWrite(w) ==
    /\ pc[w] = "en_write"
    /\ enriched_addresses' = enriched_addresses \o to_csv(tell[w], frame[w])
    /\ ret' = [ret EXCEPT ![row_of(w).id] = Returned(frame[w])]
    /\ NextRow(w)
    /\ UNCHANGED leafVars
    /\ UNCHANGED <<df, n_cores, by_city_state, df_split, driver, tell, cur, frame,
                   calls, lookup_ret, value_errors, unresolveable_addresses>>

\* pool.starmap returns once every task has ended: normally, or by raising a
\* task's exception, which the driver catches only if it is an AttributeError.
Join ==
    /\ driver = "starmap"
    /\ \A w \in Workers : pc[w] \in {"done", "raised"}
    /\ \/ /\ \A w \in Workers : pc[w] = "done"
          /\ driver' = "completed"
       \/ \E w \in Workers :
             /\ pc[w] = "raised"
             /\ driver' = IF exc[w] = "AttributeError" THEN "caught"
                                                        ELSE "propagated"
    /\ UNCHANGED leafVars
    /\ UNCHANGED <<df, n_cores, by_city_state, df_split, pc, idx, tell, cur,
                   frame, exc, calls, lookup_ret, ret, value_errors,
                   unresolveable_addresses, enriched_addresses>>

GeoNext ==
    \/ Starmap
    \/ Join
    \/ \E w \in Workers : ApplyReturn(w)
    \/ \E w \in Workers : Lookup(w)
    \/ \E w \in Workers : ValueErrorsOpen(w)
    \/ \E w \in Workers : ValueErrorsWrite(w)
    \/ \E w \in Workers : Build(w)
    \/ \E w \in Workers : UnresolveableOpen(w)
    \/ \E w \in Workers : UnresolveableWrite(w)
    \/ \E w \in Workers : EnrichedOpen(w)
    \/ \E w \in Workers : EnrichedWrite(w)

----------------------------------------------------------------------------
\* Query normalization of the postal code: str(address['zip'])[:5].

PyStr(s) == [type |-> "str", s |-> s, v |-> 0]
PyInt(n) == [type |-> "int", s |-> <<>>, v |-> n]
PyNone == [type |-> "NoneType", s |-> <<>>, v |-> 0]
PyNan == [type |-> "float", s |-> <<>>, v |-> 0]

DigitChars == <<"0", "1", "2", "3", "4", "5", "6", "7", "8", "9">>

RECURSIVE digits(_)
digits(n) ==
    IF n < 10 THEN <<DigitChars[n + 1]>>
    ELSE digits(n \div 10) \o <<DigitChars[(n % 10) + 1]>>

\* str(x)
str(x) ==
    CASE x.type = "str" -> x.s
      [] x.type = "int" -> digits(x.v)
      [] x.type = "NoneType" -> <<"N", "o", "n", "e">>
      [] x.type = "float" -> <<"n", "a", "n">>

\* s[:n]
slice_to(s, n) ==
    SubSeq(s, 1, IF Len(s) < n THEN Len(s) ELSE n)

\* A normalization that forgets the slice.
normalize_zip_unsliced(x) == str(x)

\* address['zip'] = str(address['zip'])[:5]
normalize_zip(x) == slice_to(str(x), 5)

ZipChars == {"0", "9"}
ZipCells ==
    {PyStr(s) : s \in UNION {[1..k -> ZipChars] : k \in 0..MaxZipChars}}
    \cup {PyInt(n) : n \in {0, 7, 501, 2139, 12345, 123456, 123456789}}
    \cup {PyNone, PyNan}

ZipIdle == zip_in = PyNone /\ zip_out = <<"idle">>
ZipInit == zip_in \in ZipCells /\ zip_out = <<"unset">>

NormalizeZip ==
    /\ zip_out = <<"unset">>
    /\ zip_out' = normalize_zip(zip_in)
    /\ UNCHANGED <<zip_in, geoVars, timeVars, genVars, aggVars, ratioVars>>

----------------------------------------------------------------------------
\* process_timestamps: the day-part flags and the near-holiday flag.

Timestamp(d, h) == [type |-> "Timestamp", a |-> d, b |-> h]
Date(d) == [type |-> "date", a |-> d, b |-> 0]
Integer(n) == [type |-> "int", a |-> n, b |-> 0]

morning == {Integer(h) : h \in {6, 7, 8, 9, 10, 11}}
afternoon == {Integer(h) : h \in {12, 13, 14, 15, 16, 17}}
evening == {Integer(h) : h \in {18, 19, 20, 21, 22, 23}}
night == {Integer(h) : h \in {0, 1, 2, 3, 4, 5}}

\* Series.isin of a datetime column: the values of the column themselves are
\* looked up among `values`.
isin(x, values) == x \in values

\* Series.isin of a column of datetime.date objects among Timestamps: an
\* object lookup by hash and ==. A date and a Timestamp hash differently, and
\* whether they compare equal when they fall on the same day, and whether the
\* lookup gets to compare them at all, depends on the pandas build: every
\* outcome it can produce is kept.
isin_objects(x, values) ==
    IF \E v \in values : v.a = x.a THEN BOOLEAN ELSE {FALSE}

\* The days of USFederalHolidayCalendar that fall near the modelled days
\* (2021-01-01, 2021-01-18, 2021-02-15).
USFederalHolidayCalendar == {1, 18, 46}

before_eq(s, t) == s.a < t.a \/ (s.a = t.a /\ s.b <= t.b)

min_of(c) == CHOOSE x \in {c[i] : i \in 1..Len(c)} :
                \A i \in 1..Len(c) : before_eq(x, c[i])
max_of(c) == CHOOSE x \in {c[i] : i \in 1..Len(c)} :
                \A i \in 1..Len(c) : before_eq(c[i], x)

\* cal.holidays(start, end)
holidays(start, end) ==
    {Timestamp(h, 0) : h \in {d \in USFederalHolidayCalendar :
        before_eq(start, Timestamp(d, 0)) /\ before_eq(Timestamp(d, 0), end)}}

\* The holidays and, per holiday h, pd.date_range(h - 7 days, h + 7 days).
holiday_weeks(c) ==
    LET hs == holidays(min_of(c), max_of(c))
    IN hs \cup UNION {{Timestamp(d, 0) : d \in (h.a - 7)..(h.a + 7)} : h \in hs}

\* x.dt.date
dt_date(x) == Date(x.a)

Stamps == {Timestamp(d, h) : d \in FirstDay..LastDay, h \in 0..23}

TimeIdle == col = <<>> /\ features = <<>>
TimeInit ==
    /\ col \in UNION {[1..k -> Stamps] : k \in 1..MaxStamps}
    /\ features = <<>>

ProcessTimestamps ==
    /\ features = <<>>
    /\ \E near \in [1..Len(col) -> BOOLEAN] :
          /\ \A i \in 1..Len(col) :
                near[i] \in isin_objects(dt_date(col[i]), holiday_weeks(col))
          /\ features' = [i \in 1..Len(col) |->
                [during_morning |-> isin(col[i], morning),
                 during_afternoon |-> isin(col[i], afternoon),
                 during_evening |-> isin(col[i], evening),
                 during_night |-> isin(col[i], night),
                 near_holiday |-> near[i]]]
    /\ UNCHANGED <<col, geoVars, zipVars, genVars, aggVars, ratioVars>>

----------------------------------------------------------------------------
\* birth_generation

range(start, stop) == start..(stop - 1)

lost_generation == range(1890, 1915)
interbellum_generation == range(1901, 1913)
greatest_generation == range(1910, 1924)
silent_generation == range(1925, 1945)
baby_boomers == range(1946, 1964)
generation_x == range(1965, 1979)
xennials == range(1975, 1985)
millennials == range(1980, 1994)
generation_z == range(1995, 2012)
generation_alpha == range(2013, 2025)

\* A lookup that asks for the Interbellum range before the Lost Generation's.
birth_generation_reordered(y) ==
    IF y \in interbellum_generation THEN "Interbellum Generation"
    ELSE IF y \in lost_generation THEN "Lost Generation"
    ELSE IF y \in greatest_generation THEN "Greatest Generation"
    ELSE IF y \in silent_generation THEN "Silent Generation"
    ELSE IF y \in baby_boomers THEN "Baby Boomers"
    ELSE IF y \in generation_x THEN "Generation X"
    ELSE IF y \in xennials THEN "Xennials"
    ELSE IF y \in millennials THEN "Millennials"
    ELSE IF y \in generation_z THEN "Generation Z"
    ELSE IF y \in generation_alpha THEN "Generation Alpha"
    ELSE "Unknown"

birth_generation(y) ==
    IF y \in lost_generation THEN "Lost Generation"
    ELSE IF y \in interbellum_generation THEN "Interbellum Generation"
    ELSE IF y \in greatest_generation THEN "Greatest Generation"
    ELSE IF y \in silent_generation THEN "Silent Generation"
    ELSE IF y \in baby_boomers THEN "Baby Boomers"
    ELSE IF y \in generation_x THEN "Generation X"
    ELSE IF y \in xennials THEN "Xennials"
    ELSE IF y \in millennials THEN "Millennials"
    ELSE IF y \in generation_z THEN "Generation Z"
    ELSE IF y \in generation_alpha THEN "Generation Alpha"
    ELSE "Unknown"

GenIdle == birth_year = 0 /\ generation = "idle"
GenInit == birth_year \in FirstYear..LastYear /\ generation = "uncalled"

BirthGeneration ==
    /\ generation = "uncalled"
    /\ generation' = birth_generation(birth_year)
    /\ UNCHANGED <<birth_year, geoVars, zipVars, timeVars, aggVars,
                   ratioVars>>

----------------------------------------------------------------------------
\* np.array_split on its own, on larger tables than the pipeline's.

GeoIdle ==
    /\ df = <<>>
    /\ n_cores = 1
    /\ by_city_state = TRUE
    /\ df_split = <<>>
    /\ driver = "idle"
    /\ pc = <<"idle">>
    /\ idx = <<1>>
    /\ tell = <<0>>
    /\ cur = <<NoneObj>>
    /\ frame = <<EmptyFrame>>
    /\ exc = <<"none">>
    /\ calls = << <<>> >>
    /\ lookup_ret = <<>>
    /\ ret = <<>>
    /\ value_errors = <<>>
    /\ unresolveable_addresses = <<>>
    /\ enriched_addresses = <<>>

SplitInit ==
    /\ \E k \in 0..MaxSplitRows :
          df = [i \in 1..k |-> Row(i, [fields |-> "text", answer |-> "records", n |-> 1])]
    /\ n_cores \in 1..MaxSections
    /\ by_city_state = TRUE
    /\ df_split = <<>>
    /\ driver = "unsplit"
    /\ pc = <<"idle">>
    /\ idx = <<1>>
    /\ tell = <<0>>
    /\ cur = <<NoneObj>>
    /\ frame = <<EmptyFrame>>
    /\ exc = <<"none">>
    /\ calls = << <<>> >>
    /\ lookup_ret = <<>>
    /\ ret = <<>>
    /\ value_errors = <<>>
    /\ unresolveable_addresses = <<>>
    /\ enriched_addresses = <<>>

ArraySplit ==
    /\ driver = "unsplit"
    /\ df_split' = array_split(df, n_cores)
    /\ driver' = "split"
    /\ UNCHANGED <<df, n_cores, by_city_state, pc, idx, tell, cur, frame, exc,
                   calls, lookup_ret, ret, value_errors, unresolveable_addresses,
                   enriched_addresses, leafVars>>

----------------------------------------------------------------------------
\* make_count_aggregation, make_sum_aggregation, make_mean_aggregation.

\* A row of the table: its grouping cell (possibly missing) and its grouped
\* cell.
AggRow(na, k, v) == [key_na |-> na, key |-> k, value |-> v]

AggRows ==
    {AggRow(FALSE, k, v) : k \in 1..MaxAggKeys, v \in 0..MaxAggValue}
    \cup {AggRow(TRUE, 1, v) : v \in 0..MaxAggValue}

AggTables == UNION {[1..n -> AggRows] : n \in 0..MaxAggRows}

\* A cell of the aggregate column: the number num / den, or a missing value.
Cell(num, den) == [na |-> FALSE, num |-> num, den |-> den]
NaNCell == [na |-> TRUE, num |-> 0, den |-> 1]

RECURSIVE sorted(_)
sorted(S) ==
    IF S = {} THEN <<>>
    ELSE LET m == CHOOSE x \in S : \A y \in S : x <= y
         IN <<m>> \o sorted(S \ {m})

\* The keys of df.groupby(grouping_feature): the distinct values of the
\* grouping column, sorted; rows whose key is missing belong to no group.
group_keys(t) ==
    sorted({t[i].key : i \in {j \in 1..Len(t) : ~t[j].key_na}})

\* The grouped column of the rows of group k, in row order.
RECURSIVE group_values(_, _)
group_values(t, k) ==
    IF t = <<>> THEN <<>>
    ELSE (IF ~Head(t).key_na /\ Head(t).key = k THEN <<Head(t).value>> ELSE <<>>)
         \o group_values(Tail(t), k)

RECURSIVE sum(_)
sum(values) ==
    IF values = <<>> THEN 0 ELSE Head(values) + sum(Tail(values))

nunique(values) == Cardinality({values[i] : i \in 1..Len(values)})

mean(values) == Cell(sum(values), Len(values))

aggregate(op, values) ==
    CASE op = "nunique" -> Cell(nunique(values), 1)
      [] op = "sum" -> Cell(sum(values), 1)
      [] op = "mean" -> mean(values)

\* df.groupby(grouping_feature)[[grouped_feature]].<op>(): one row per group.
groupby(t, op) ==
    LET keys == group_keys(t)
    IN [g \in 1..Len(keys) |->
           [key |-> keys[g], agg |-> aggregate(op, group_values(t, keys[g]))]]

\* The rows of the aggregate whose key is that of the row.
RECURSIVE matches(_, _)
matches(row, right) ==
    IF right = <<>> THEN <<>>
    ELSE (IF ~row.key_na /\ Head(right).key = row.key THEN <<Head(right)>> ELSE <<>>)
         \o matches(row, Tail(right))

\* A join that keeps only the rows that have an aggregate (how='inner').
RECURSIVE merge_inner(_, _)
merge_inner(left, right) ==
    IF left = <<>> THEN <<>>
    ELSE LET row == Head(left)
             m == matches(row, right)
         IN [k \in 1..Len(m) |->
                [key_na |-> row.key_na, key |-> row.key, value |-> row.value,
                 agg |-> m[k].agg]]
            \o merge_inner(Tail(left), right)

\* df.merge(agg_feature, on=grouping_feature, how='left') and the rename: per
\* row of df, in order, one row per matching row of the aggregate, and one
\* row with a missing aggregate when none matches.
RECURSIVE merge_left(_, _)
merge_left(left, right) ==
    IF left = <<>> THEN <<>>
    ELSE LET row == Head(left)
             m == matches(row, right)
         IN (IF m = <<>>
             THEN <<[key_na |-> row.key_na, key |-> row.key, value |-> row.value,
                     agg |-> NaNCell]>>
             ELSE [k \in 1..Len(m) |->
                     [key_na |-> row.key_na, key |-> row.key, value |-> row.value,
                      agg |-> m[k].agg]])
            \o merge_left(Tail(left), right)

make_count_aggregation(t) == merge_left(t, groupby(t, "nunique"))
make_sum_aggregation(t) == merge_left(t, groupby(t, "sum"))
make_mean_aggregation(t) == merge_left(t, groupby(t, "mean"))

AggIdle == agg_df = <<>> /\ agg_op = "idle" /\ agg_out = <<>>
AggInit == agg_df \in AggTables /\ agg_op = "uncalled" /\ agg_out = <<>>

MakeCountAggregation ==
    /\ agg_op = "uncalled"
    /\ agg_op' = "nunique"
    /\ agg_out' = make_count_aggregation(agg_df)
    /\ UNCHANGED <<agg_df, geoVars, zipVars, timeVars, genVars, ratioVars>>

MakeSumAggregation ==
    /\ agg_op = "uncalled"
    /\ agg_op' = "sum"
    /\ agg_out' = make_sum_aggregation(agg_df)
    /\ UNCHANGED <<agg_df, geoVars, zipVars, timeVars, genVars, ratioVars>>

MakeMeanAggregation ==
    /\ agg_op = "uncalled"
    /\ agg_op' = "mean"
    /\ agg_out' = make_mean_aggregation(agg_df)
    /\ UNCHANGED <<agg_df, geoVars, zipVars, timeVars, genVars, ratioVars>>

----------------------------------------------------------------------------
\* calc_create_ratios.

\* A column name is the sequence of its pieces: f'{a}_by_{b}' puts the piece
\* _by_ between the pieces of a and of b.
by_name(a, b) == a \o <<"_by_">> \o b

FeatureNames ==
    {<<"a">>, <<"b">>, <<"c">>, <<"a", "_by_", "b">>, <<"b", "_by_", "c">>}

\* Lists of distinct feature names.
NameLists ==
    {l \in UNION {[1..n -> FeatureNames] : n \in 0..MaxFeatures} :
        \A i, k \in 1..Len(l) : i # k => l[i] # l[k]}

\* A cell holds the number n / d (d = 0: the inf or NaN of a division by 0).
Frac(n, d) == [n |-> n, d |-> d]

\* Series / Series, cell by cell.
truediv(a, b) == Frac(a.n * b.d, a.d * b.n)

\* Pairs taken with the second index in the outer loop.
ratio_idxs_swapped(n) ==
    SelectSeq([k \in 1..(n * n) |-> <<(k - 1) % n, (k - 1) \div n>>],
              LAMBDA c : c[1] # c[2])

\* for x1 in range(n): for x2 in range(n): if x1 != x2: append((x1, x2))
ratio_idxs(n) ==
    SelectSeq([k \in 1..(n * n) |-> <<(k - 1) \div n, (k - 1) % n>>],
              LAMBDA c : c[1] # c[2])

ratio_names(names, idxs) ==
    [i \in 1..Len(idxs) |-> by_name(names[idxs[i][1] + 1], names[idxs[i][2] + 1])]

NoFrame == [type |-> "none", columns |-> <<>>, cells |-> <<>>]

\* pd.DataFrame(X, columns=feature_names), of which one row is followed.
frame_of(x, names) ==
    [type |-> "DataFrame", columns |-> names,
     cells |-> [i \in 1..Len(x) |-> Frac(x[i], 1)]]

\* df[name] = cell: the column of that name is overwritten where it stands,
\* and a new last column is made when there is none.
setitem(d, name, cell) ==
    IF \E k \in 1..Len(d.columns) : d.columns[k] = name
    THEN [d EXCEPT !.cells =
            [k \in 1..Len(d.cells) |->
                IF d.columns[k] = name THEN cell ELSE d.cells[k]]]
    ELSE [d EXCEPT !.columns = Append(@, name), !.cells = Append(@, cell)]

\* for i, computation in enumerate(ratio_idxs):
\*     df[ratio_names[i]] = df.iloc[:, computation[0]] / df.iloc[:, computation[1]]
RECURSIVE assign_ratios(_, _, _, _)
assign_ratios(d, idxs, names, i) ==
    IF i > Len(idxs) THEN d
    ELSE assign_ratios(
            setitem(d, names[i],
                    truediv(d.cells[idxs[i][1] + 1], d.cells[idxs[i][2] + 1])),
            idxs, names, i + 1)

calc_create_ratios(x, names) ==
    LET idxs == ratio_idxs(Len(names))
    IN assign_ratios(frame_of(x, names), idxs, ratio_names(names, idxs), 1)

RatioIdle == X = <<>> /\ feature_names = <<>> /\ ratio_df = NoFrame
RatioInit ==
    /\ feature_names \in NameLists
    /\ X \in [1..Len(feature_names) -> 0..MaxRatioValue]
    /\ ratio_df = NoFrame

CalcCreateRatios ==
    /\ ratio_df = NoFrame
    /\ ratio_df' = calc_create_ratios(X, feature_names)
    /\ UNCHANGED <<X, feature_names, geoVars, zipVars, timeVars, genVars, aggVars>>

----------------------------------------------------------------------------
\* Specifications.

Init == GeoInit /\ ZipIdle /\ TimeIdle /\ GenIdle /\ AggIdle
        /\ RatioIdle
Next == GeoNext
Spec == Init /\ [][Next]_vars

InitSplit == SplitInit /\ ZipIdle /\ TimeIdle /\ GenIdle /\ AggIdle
        /\ RatioIdle
NextSplit == ArraySplit
SpecSplit == InitSplit /\ [][NextSplit]_vars

InitZip == GeoIdle /\ ZipInit /\ TimeIdle /\ GenIdle /\ AggIdle
        /\ RatioIdle
NextZip == NormalizeZip
SpecZip == InitZip /\ [][NextZip]_vars

InitTime == GeoIdle /\ ZipIdle /\ TimeInit /\ GenIdle /\ AggIdle
        /\ RatioIdle
NextTime == ProcessTimestamps
SpecTime == InitTime /\ [][NextTime]_vars

InitGen == GeoIdle /\ ZipIdle /\ TimeIdle /\ GenInit /\ AggIdle
        /\ RatioIdle
NextGen == BirthGeneration
SpecGen == InitGen /\ [][NextGen]_vars

InitAgg == GeoIdle /\ ZipIdle /\ TimeIdle /\ GenIdle /\ AggInit /\ RatioIdle
NextAgg == MakeCountAggregation \/ MakeSumAggregation \/ MakeMeanAggregation
SpecAgg == InitAgg /\ [][NextAgg]_vars

InitRatio == GeoIdle /\ ZipIdle /\ TimeIdle /\ GenIdle /\ AggIdle /\ RatioInit
NextRatio == CalcCreateRatios
SpecRatio == InitRatio /\ [][NextRatio]_vars

----------------------------------------------------------------------------
\* Properties.

DataRows(file, q) == {k \in 1..Len(file) : file[k].line = "data" /\ file[k].q = q}
Headers(file) == {k \in 1..Len(file) : file[k] = Header}
Built == UNION {{calls[w][k] : k \in 1..Len(calls[w])} : w \in DOMAIN calls}

\* C1: a by_city_state lookup that the service rejects with ValueError
\* returns the empty list without raising, and value_errors.csv holds exactly
\* one data row of that query from then on (and none before).
C1_RejectedLookup ==
    by_city_state =>
        \A i \in 1..Len(df) :
            (df[i].fields = "text" /\ df[i].answer = "ValueError") =>
                IF lookup_ret[i].exc = "pending"
                THEN DataRows(value_errors, i) = {}
                ELSE /\ lookup_ret[i] = Returned(PyList(<<>>))
                     /\ Cardinality(DataRows(value_errors, i)) = 1

\* Two rejected queries have been logged, after one header.
C1_Witness ==
    /\ by_city_state
    /\ \E i, k \in 1..Len(df) :
          /\ i # k
          /\ df[i].answer = "ValueError" /\ lookup_ret[i] = Returned(PyList(<<>>))
          /\ df[k].answer = "ValueError" /\ lookup_ret[k] = Returned(PyList(<<>>))
    /\ Len(value_errors) = 3

\* The lookup of row i brought something whose attributes cannot be read.
MappingFails(i) ==
    /\ df[i].fields = "text"
    /\ \/ df[i].answer = "absent"
       \/ df[i].answer = "ValueError" /\ ~by_city_state

\* C2: when the mapping of the lookup result's attributes fails,
\* construct_municipal_area logs one row to unresolveable_addresses.csv and
\* returns an empty table with the 12 metric columns; no exception leaves it.
C2_AttributeErrorGivesBlankTable ==
    \A i \in 1..Len(df) :
        (MappingFails(i) /\ ret[i].exc # "pending") =>
            /\ ret[i].exc = "none"
            /\ ret[i].value.type = "DataFrame"
            /\ ret[i].value.rows = <<>>
            /\ Len(ret[i].value.columns) >= 12
            /\ SubSeq(ret[i].value.columns, 1, 12) = metrics
            /\ Cardinality(DataRows(unresolveable_addresses, i)) = 1

\* C3: when pool.starmap has ended, every row of every shard has been handed
\* to construct_municipal_area, whatever failed on single rows.
C3_EveryRowBuilt ==
    driver \in {"completed", "caught", "propagated"} =>
        \A i \in 1..Len(df) : i \in Built

\* C4: each of the three files holds, once it is not empty, exactly one
\* header row, and that row is its first line.
OneHeaderFirst(file) ==
    file # <<>> => file[1] = Header /\ Cardinality(Headers(file)) = 1

C4_OneHeader ==
    /\ OneHeaderFirst(value_errors)
    /\ OneHeaderFirst(unresolveable_addresses)
    /\ OneHeaderFirst(enriched_addresses)

RECURSIVE Concat(_, _)
Concat(shards, n) ==
    IF n = 0 THEN <<>> ELSE Concat(shards, n - 1) \o shards[n]

RECURSIVE SumLen(_, _)
SumLen(shards, n) ==
    IF n = 0 THEN 0 ELSE SumLen(shards, n - 1) + Len(shards[n])

\* C5: the table is split into n_cores shards whose sizes sum to the number
\* of rows and differ pairwise by at most 1, and whose concatenation in shard
\* order is the table.
C5_NearEqualContiguousShards ==
    driver = "split" =>
        /\ DOMAIN df_split = 1..n_cores
        /\ SumLen(df_split, n_cores) = Len(df)
        /\ \A a, b \in 1..n_cores : Len(df_split[a]) - Len(df_split[b]) <= 1
        /\ Concat(df_split, n_cores) = df

\* A table of 8 rows split in 5: shards of 2, 2, 2, 1, 1.
C5_Witness ==
    /\ driver = "split"
    /\ Len(df) = 8 /\ n_cores = 5
    /\ Len(df_split[3]) = 2 /\ Len(df_split[4]) = 1

\* C6: a query whose lookup returns M zip records (M >= 1 by city/state, one
\* by postal code) makes construct_municipal_area return M rows, the k-th
\* holding the k-th zip record and the source row with all its values.
C6_OneRowPerZipRecord ==
    \A i \in 1..Len(df) :
        (/\ df[i].fields = "text"
         /\ df[i].answer = "records"
         /\ df[i].n >= 1
         /\ ret[i].exc # "pending") =>
            /\ ret[i].exc = "none"
            /\ Len(ret[i].value.rows) = df[i].n
            /\ \A k \in 1..df[i].n :
                  /\ ret[i].value.rows[k].metrics = SimpleZipcode(i, k)
                  /\ ret[i].value.rows[k].row = df[i]

\* A city/state query that fanned out to two rows has returned.
C6_Witness ==
    \E i \in 1..Len(df) :
        /\ by_city_state
        /\ df[i].answer = "records" /\ df[i].n = 2
        /\ ret[i].exc = "none"
        /\ Len(ret[i].value.rows) = 2

\* C7 as stated: after normalization the postal code has exactly 5
\* characters, whatever the input was.
C7_AlwaysFiveCharacters ==
    zip_out # <<"unset">> => Len(zip_out) = 5

\* C7 as the code has it: the normalized postal code is the first 5
\* characters of the text form of the input: at most 5 characters, exactly 5
\* when the text form has at least 5, and the whole text form otherwise.
C7_FirstFiveCharacters ==
    zip_out # <<"unset">> =>
        /\ Len(zip_out) <= 5
        /\ Len(str(zip_in)) >= 5 => Len(zip_out) = 5
        /\ Len(str(zip_in)) < 5 => zip_out = str(zip_in)
        /\ \A k \in 1..Len(zip_out) : zip_out[k] = str(zip_in)[k]

\* A 7-character cell has been cut to 5.
C7_Witness ==
    /\ zip_in.type = "str" /\ Len(zip_in.s) = 7
    /\ zip_out # <<"unset">> /\ Len(zip_out) = 5

\* C8: exactly the day-part flag whose hours hold the timestamp's hour is
\* true (morning 6-11, afternoon 12-17, evening 18-23, night 0-5).
C8_DayPartFlags ==
    \A i \in 1..Len(features) :
        /\ features[i].during_morning = (col[i].b \in 6..11)
        /\ features[i].during_afternoon = (col[i].b \in 12..17)
        /\ features[i].during_evening = (col[i].b \in 18..23)
        /\ features[i].during_night = (col[i].b \in 0..5)

\* C9: the near-holiday flag is true exactly when the row's date lies within
\* 7 days before or after some federal holiday.
C9_NearHolidayFlag ==
    \A i \in 1..Len(features) :
        features[i].near_holiday =
            (\E h \in USFederalHolidayCalendar :
                col[i].a - h <= 7 /\ h - col[i].a <= 7)

\* The declared cohorts as (inclusive start, exclusive end, name), in order.
Cohorts ==
    << <<1890, 1915, "Lost Generation">>,
       <<1901, 1913, "Interbellum Generation">>,
       <<1910, 1924, "Greatest Generation">>,
       <<1925, 1945, "Silent Generation">>,
       <<1946, 1964, "Baby Boomers">>,
       <<1965, 1979, "Generation X">>,
       <<1975, 1985, "Xennials">>,
       <<1980, 1994, "Millennials">>,
       <<1995, 2012, "Generation Z">>,
       <<2013, 2025, "Generation Alpha">> >>

Contains(k, y) == Cohorts[k][1] <= y /\ y < Cohorts[k][2]

\* C10: birth_generation returns the name of the first declared interval
\* that contains the year, and 'Unknown' when none does; 1920 gives
\* 'Greatest Generation', 1978 'Generation X' and 2030 'Unknown'.
C10_FirstMatchWins ==
    generation # "uncalled" =>
        /\ \A k \in 1..Len(Cohorts) :
              (Contains(k, birth_year) /\ \A m \in 1..(k - 1) : ~Contains(m, birth_year))
                  => generation = Cohorts[k][3]
        /\ (\A k \in 1..Len(Cohorts) : ~Contains(k, birth_year))
              => generation = "Unknown"
        /\ birth_year = 1920 => generation = "Greatest Generation"
        /\ birth_year = 1978 => generation = "Generation X"
        /\ birth_year = 2030 => generation = "Unknown"

\* A year of two overlapping ranges has been classified.
C10_Witness ==
    birth_year = 1978 /\ generation = "Generation X"

\* The rows of the original table that share row i's grouping key (a missing
\* key taken as shared by the rows whose key is missing).
SameKey(i) ==
    {j \in 1..Len(agg_df) :
        /\ agg_df[j].key_na = agg_df[i].key_na
        /\ agg_df[j].key = agg_df[i].key}

RECURSIVE SumOver(_)
SumOver(S) ==
    IF S = {} THEN 0
    ELSE LET j == CHOOSE x \in S : TRUE
         IN agg_df[j].value + SumOver(S \ {j})

\* The aggregate cell c holds the called operation applied to the grouped
\* field over the rows S.
HoldsOperation(c, S) ==
    /\ ~c.na
    /\ agg_op = "nunique" =>
          c.den = 1 /\ c.num = Cardinality({agg_df[j].value : j \in S})
    /\ agg_op = "sum" => c.den = 1 /\ c.num = SumOver(S)
    /\ agg_op = "mean" =>
          c.den > 0 /\ c.num * Cardinality(S) = SumOver(S) * c.den

SameRows ==
    /\ Len(agg_out) = Len(agg_df)
    /\ \A i \in 1..Len(agg_df) :
          /\ agg_out[i].key_na = agg_df[i].key_na
          /\ agg_out[i].key = agg_df[i].key
          /\ agg_out[i].value = agg_df[i].value

\* C11 as stated: the output has as many rows as the input, and every row's
\* new column holds the operation applied to the grouped field over all rows
\* of the original table that share the row's grouping key.
C11_AggregatePerKey ==
    agg_op # "uncalled" =>
        /\ SameRows
        /\ \A i \in 1..Len(agg_df) : HoldsOperation(agg_out[i].agg, SameKey(i))

\* C11 as the code has it: the output has the input's rows, in order; every
\* row whose grouping key is present holds the operation over all rows that
\* share its key, and every row whose grouping key is missing holds a
\* missing value.
C11_AggregatePerPresentKey ==
    agg_op # "uncalled" =>
        /\ SameRows
        /\ \A i \in 1..Len(agg_df) :
              IF agg_df[i].key_na
              THEN agg_out[i].agg = NaNCell
              ELSE HoldsOperation(agg_out[i].agg, SameKey(i))

\* A mean over a group of two rows with different values has been joined
\* onto both rows, next to a row of another group.
C11_Witness ==
    /\ agg_op = "mean"
    /\ Len(agg_df) = 3
    /\ ~agg_df[1].key_na /\ ~agg_df[2].key_na /\ ~agg_df[3].key_na
    /\ agg_df[1].key = agg_df[3].key /\ agg_df[1].key # agg_df[2].key
    /\ agg_df[1].value = 1 /\ agg_df[3].value = 2
    /\ agg_out[1].agg = Cell(3, 2) /\ agg_out[3].agg = Cell(3, 2)

\* The worker whose shard holds row i, and the ids of a shard's rows.
ShardOf(i) == CHOOSE w \in Workers : \E k \in 1..Len(shard(w)) : shard(w)[k].id = i
ShardIds(w) == [k \in 1..Len(shard(w)) |-> shard(w)[k].id]

C14_NeverInterbellum ==
    /\ generation # "Interbellum Generation"
    /\ (generation # "uncalled" /\ 1901 <= birth_year /\ birth_year < 1913)
          => generation = "Lost Generation"

\* A year of the Interbellum range has been classified.
C14_Witness ==
    birth_year = 1905 /\ generation = "Lost Generation"

\* Where the ratio of features i and j stands: after the N features, in the
\* order of an outer loop over i and an inner loop over j that skips j = i.
RatioPosition(N, i, j) == N + (i - 1) * (N - 1) + (IF j < i THEN j ELSE j - 1)

RatioTable ==
    LET N == Len(feature_names)
    IN /\ Len(ratio_df.columns) = N + N * (N - 1)
       /\ Len(ratio_df.cells) = N + N * (N - 1)
       /\ \A i \in 1..N :
             /\ ratio_df.columns[i] = feature_names[i]
             /\ ratio_df.cells[i] = Frac(X[i], 1)
       /\ \A i, j \in 1..N :
             i # j =>
                /\ ratio_df.columns[RatioPosition(N, i, j)] =
                      by_name(feature_names[i], feature_names[j])
                /\ ratio_df.cells[RatioPosition(N, i, j)] = Frac(X[i], X[j])
       /\ N = 2 =>
             SubSeq(ratio_df.columns, 3, 4) =
                <<by_name(feature_names[1], feature_names[2]),
                  by_name(feature_names[2], feature_names[1])>>

\* No ratio name is the name of a feature or of the ratio of another pair.
NoNameClash ==
    LET N == Len(feature_names)
        name(i, j) == by_name(feature_names[i], feature_names[j])
    IN \A i, j \in 1..N :
          i # j =>
             /\ \A k \in 1..N : name(i, j) # feature_names[k]
             /\ \A k, l \in 1..N :
                   (k # l /\ <<k, l>> # <<i, j>>) => name(i, j) # name(k, l)

\* C12 as stated: for N features with distinct names the table holds the N
\* features, then the N*(N-1) ratio columns '<name_i>_by_<name_j>' in loop
\* order, each holding column i divided by column j.
C12_RatioColumns ==
    ratio_df # NoFrame => RatioTable

\* C12 as the code has it: the same, for distinct feature names of which no
\* ratio name '<name_i>_by_<name_j>' is the name of a feature or the ratio
\* name of another pair.
C12_RatioColumnsWithoutClash ==
    (ratio_df # NoFrame /\ NoNameClash) => RatioTable

\* Three features a, b, c with different values have got their six ratios.
C12_Witness ==
    /\ feature_names = << <<"a">>, <<"b">>, <<"c">> >>
    /\ X = <<1, 2, 0>>
    /\ Len(ratio_df.columns) = 9
    /\ ratio_df.columns[4] = <<"a", "_by_", "b">>
    /\ ratio_df.cells[9] = Frac(0, 2)

====
